---- MODULE Spec2Model ----
(***************************************************************************)
(* Model of src/main.rs: the triple buffer (DoubleBuffer) with its atomic  *)
(* role pointers, the producer thread (cpu_handle) and the consumer thread *)
(* (render_handle) with their two token channels.  Every atomic load, swap *)
(* and store, every channel operation and every access to a slot's Vec is  *)
(* one step, so all interleavings of the two threads are explored.         *)
(***************************************************************************)
EXTENDS Integers, Sequences, FiniteSets, TLC

\* ---- bounds of the model ----
\* the producer opens at most MaxFrames images (the loop of main.rs:126 is endless)
MaxFrames == 5
\* length of the path list (4989 in get_path, scaled down so that the list wraps)
NumPaths == 3
\* cap on the pacer's accumulated deficit, in milliseconds
MaxDelay == 186
\* the encoder alone is followed on grids of 1..MaxCols columns and the
\* program's rows, on the images 0..MaxSeed, run by 1..MaxWorkers workers
MaxCols == 2
MaxSeed == 1
MaxWorkers == 2

\* ---- program constants ----
\* number of bands of the encoder, main.rs:136
NumBands == 24
\* std::time::Duration::from_millis(1000 / 16), main.rs:178
frame_time == 1000 \div 16
\* the three boxes allocated by DoubleBuffer::new: front_box, back_box, temp_box
Slots == {0, 1, 2}
\* let size = 5, main.rs:110, and the grid of DoubleBuffer::new(1920 / size, 1080 / size)
size == 5
GridCols == 1920 \div size
GridRows == 1080 \div size
\* measured values of now.elapsed(), in milliseconds
Elapsed == {0, 31, 62, 93}

VARIABLES
    front, back, temp,      \* DoubleBuffer's AtomicPtr fields: the slot each role points at
    data,                   \* FrameData.data of every slot: a sequence of encoded bands
    new_request, frame_ready, \* tokens queued in the two mpsc channels
    ppc,                    \* position of the producer thread
    pathIdx,                \* position of paths.iter() in the list
    img,                    \* the image opened by the producer: its path index
    frameNo,                \* number of images opened so far (stamp of the frame in work)
    pback,                  \* the producer's reference `back` obtained from temp_mut()
    blocks,                 \* the producer's collected Vec<Vec<u8>>
    bi,                     \* number of blocks already moved into back.data
    p_back_ptr, p_temp_ptr, \* locals of temp_to_back
    cpc,                    \* position of the consumer thread
    cfront,                 \* the consumer's reference `front` obtained from front()
    chead,                  \* what write_all has read of front.data so far
    delay,                  \* the pacer's running deficit, in milliseconds
    c_back_ptr, c_front_ptr, \* locals of swap
    shown,                  \* history: the blobs written to the terminal, in order
    nPublished,             \* history: number of completed temp_to_back calls
    nSwapped,               \* history: number of completed swap calls
    elapsed,                \* the consumer's local `elapsed` of the last pacer run, in ms
    slept,                  \* history: duration of the last pacer run's thread::sleep, in ms
    clock,                  \* history: sum of all measured elapsed times and all sleeps
    nPaced,                 \* history: number of completed pacer runs
    maxElapsed,             \* history: largest elapsed time measured so far
    sumOver,                \* history: sum of the overruns max(0, elapsed - frame_time)
    mpc,                    \* position of the main thread
    raw_mode,               \* whether the terminal is in raw mode
    width, height,          \* FrameData.width and .height: the grid's columns and rows
    workers,                \* number of worker threads that run the encoder's par_iter
    next_band,              \* per worker: the next band (block_id) its closure runs on
    bufs                    \* per band: the `buf` returned by the band's closure

vars == <<front, back, temp, data, new_request, frame_ready, ppc, pathIdx, img,
          frameNo, pback, blocks, bi, p_back_ptr, p_temp_ptr, cpc, cfront, chead,
          delay, c_back_ptr, c_front_ptr, shown, nPublished, nSwapped,
          elapsed, slept, clock, nPaced, maxElapsed, sumOver, mpc, raw_mode,
          width, height, workers, next_band, bufs>>

roleVars == <<front, back, temp>>
chanVars == <<new_request, frame_ready>>
prodVars == <<ppc, pathIdx, img, frameNo, pback, blocks, bi, p_back_ptr, p_temp_ptr>>
consVars == <<cpc, cfront, chead, delay, c_back_ptr, c_front_ptr>>
histVars == <<shown, nPublished, nSwapped>>
paceVars == <<elapsed, slept, clock, nPaced, maxElapsed, sumOver>>
mainVars == <<mpc, raw_mode>>
encVars == <<width, height, workers, next_band, bufs>>
auxVars == <<paceVars, mainVars, encVars>>

\* no reference held / no local assigned yet
None == -1

\* ---- the encoder ----
\* one band's buffer: the bytes of band b of the image at path p; f stamps the
\* frame number the band was encoded for
Band(f, p, b) == [frame |-> f, path |-> p, band |-> b]

\* blocks = (0..24).into_par_iter().map(...).collect(): one buffer per band, in
\* band-index order
EncodeBlocks(f, p) == [i \in 1..NumBands |-> Band(f, p, i - 1)]

\* ---- construction ----
\* everything but the producer's position, the slots' data and the encoder
InitRest ==
    /\ front = 0 /\ back = 1 /\ temp = 2
    /\ new_request = 0 /\ frame_ready = 0
    /\ pathIdx = 0
    /\ pback = None /\ blocks = <<>> /\ bi = 0
    /\ p_back_ptr = None /\ p_temp_ptr = None
    /\ cpc = "start" /\ cfront = None /\ chead = <<>> /\ delay = 0
    /\ c_back_ptr = None /\ c_front_ptr = None
    /\ shown = <<>> /\ nPublished = 0 /\ nSwapped = 0
    /\ elapsed = 0 /\ slept = 0 /\ clock = 0 /\ nPaced = 0
    /\ maxElapsed = 0 /\ sumOver = 0
    /\ mpc = "join_cpu" /\ raw_mode = TRUE

Init ==
    /\ InitRest
    /\ data = [s \in Slots |-> <<>>]
    /\ ppc = "open" /\ img = None /\ frameNo = 0
    /\ width = GridCols /\ height = GridRows
    /\ workers = 0 /\ next_band = <<>> /\ bufs = <<>>

\* ---- producer thread (cpu_handle) ----
\* for path in paths.iter() { let img = image::open(&path).unwrap();
p_open ==
    /\ ppc = "open"
    /\ frameNo < MaxFrames
    /\ img' = pathIdx
    /\ frameNo' = frameNo + 1
    /\ ppc' = "temp_mut"
    /\ UNCHANGED <<auxVars, roleVars, data, chanVars, pathIdx, pback, blocks, bi,
                   p_back_ptr, p_temp_ptr, consVars, histVars>>

\* mutant of temp_mut: the producer takes the front slot as its working slot
temp_mut_front ==
    /\ ppc = "temp_mut"
    /\ pback' = front
    /\ ppc' = "encode"
    /\ UNCHANGED <<auxVars, roleVars, data, chanVars, pathIdx, img, frameNo, blocks, bi,
                   p_back_ptr, p_temp_ptr, consVars, histVars>>

\* let back = db_cpu.temp_mut();
temp_mut ==
    /\ ppc = "temp_mut"
    /\ pback' = temp
    /\ ppc' = "encode"
    /\ UNCHANGED <<auxVars, roleVars, data, chanVars, pathIdx, img, frameNo, blocks, bi,
                   p_back_ptr, p_temp_ptr, consVars, histVars>>

\* let blocks = (0..24).into_par_iter().map(..).collect::<Vec<Vec<u8>>>();
p_encode ==
    /\ ppc = "encode"
    /\ blocks' = EncodeBlocks(frameNo, img)
    /\ ppc' = "clear"
    /\ UNCHANGED <<auxVars, roleVars, data, chanVars, pathIdx, img, frameNo, pback, bi,
                   p_back_ptr, p_temp_ptr, consVars, histVars>>

\* back.data.clear();
p_clear ==
    /\ ppc = "clear"
    /\ data' = [data EXCEPT ![pback] = <<>>]
    /\ bi' = 0
    /\ ppc' = "extend"
    /\ UNCHANGED <<auxVars, roleVars, chanVars, pathIdx, img, frameNo, pback, blocks,
                   p_back_ptr, p_temp_ptr, consVars, histVars>>

\* for row in blocks { back.data.extend(row); }
p_extend ==
    /\ ppc = "extend"
    /\ bi < Len(blocks)
    /\ data' = [data EXCEPT ![pback] = Append(@, blocks[bi + 1])]
    /\ bi' = bi + 1
    /\ ppc' = IF bi + 1 = Len(blocks) THEN "recv" ELSE "extend"
    /\ UNCHANGED <<auxVars, roleVars, chanVars, pathIdx, img, frameNo, pback, blocks,
                   p_back_ptr, p_temp_ptr, consVars, histVars>>

\* mutant of p_recv: try_recv, the producer goes on without a request token
p_recv_try ==
    /\ ppc = "recv"
    /\ new_request' = IF new_request > 0 THEN new_request - 1 ELSE 0
    /\ ppc' = "ttb_load"
    /\ UNCHANGED <<auxVars, roleVars, data, frame_ready, pathIdx, img, frameNo, pback,
                   blocks, bi, p_back_ptr, p_temp_ptr, consVars, histVars>>

\* new_request_rx.recv().unwrap();
p_recv ==
    /\ ppc = "recv"
    /\ new_request > 0
    /\ new_request' = new_request - 1
    /\ ppc' = "ttb_load"
    /\ UNCHANGED <<auxVars, roleVars, data, frame_ready, pathIdx, img, frameNo, pback,
                   blocks, bi, p_back_ptr, p_temp_ptr, consVars, histVars>>

\* temp_to_back: let back_ptr = self.back.load(SeqCst);
temp_to_back_load ==
    /\ ppc = "ttb_load"
    /\ p_back_ptr' = back
    /\ ppc' = "ttb_swap"
    /\ UNCHANGED <<auxVars, roleVars, data, chanVars, pathIdx, img, frameNo, pback, blocks,
                   bi, p_temp_ptr, consVars, histVars>>

\* temp_to_back: let temp_ptr = self.temp.swap(back_ptr, SeqCst);
temp_to_back_swap ==
    /\ ppc = "ttb_swap"
    /\ p_temp_ptr' = temp
    /\ temp' = p_back_ptr
    /\ ppc' = "ttb_store"
    /\ UNCHANGED <<auxVars, front, back, data, chanVars, pathIdx, img, frameNo, pback,
                   blocks, bi, p_back_ptr, consVars, histVars>>

\* mutant of temp_to_back_store: back_ptr is stored instead of temp_ptr
temp_to_back_store_back_ptr ==
    /\ ppc = "ttb_store"
    /\ back' = p_back_ptr
    /\ nPublished' = nPublished + 1
    /\ ppc' = "send"
    /\ UNCHANGED <<auxVars, front, temp, data, chanVars, pathIdx, img, frameNo, pback,
                   blocks, bi, p_back_ptr, p_temp_ptr, consVars, shown, nSwapped>>

\* temp_to_back: self.back.store(temp_ptr, SeqCst);
temp_to_back_store ==
    /\ ppc = "ttb_store"
    /\ back' = p_temp_ptr
    /\ nPublished' = nPublished + 1
    /\ ppc' = "send"
    /\ UNCHANGED <<auxVars, front, temp, data, chanVars, pathIdx, img, frameNo, pback,
                   blocks, bi, p_back_ptr, p_temp_ptr, consVars, shown, nSwapped>>

\* mutant of p_send: the iterator advances by two paths
p_send_skip ==
    /\ ppc = "send"
    /\ cpc # "panicked"
    /\ frame_ready' = frame_ready + 1
    /\ pathIdx' = (pathIdx + 2) % NumPaths
    /\ ppc' = "open"
    /\ UNCHANGED <<auxVars, roleVars, data, new_request, img, frameNo, pback, blocks, bi,
                   p_back_ptr, p_temp_ptr, consVars, histVars>>

\* frame_ready_tx.send(()).unwrap(); then the next path, `loop` restarting the list
\* (send returns Ok only while the receiver, owned by the consumer, is alive)
p_send ==
    /\ ppc = "send"
    /\ cpc # "panicked"
    /\ frame_ready' = frame_ready + 1
    /\ pathIdx' = (pathIdx + 1) % NumPaths
    /\ ppc' = "open"
    /\ UNCHANGED <<auxVars, roleVars, data, new_request, img, frameNo, pback, blocks, bi,
                   p_back_ptr, p_temp_ptr, consVars, histVars>>

Producer ==
    \/ p_open
    \/ temp_mut
    \/ p_encode
    \/ p_clear
    \/ p_extend
    \/ p_recv
    \/ temp_to_back_load
    \/ temp_to_back_swap
    \/ temp_to_back_store
    \/ p_send

\* ---- consumer thread (render_handle) ----
\* mutant of c_start: the initial request token is not sent
c_start_no_send ==
    /\ cpc = "start"
    /\ ppc # "panicked"
    /\ delay' = 0
    /\ cpc' = "recv"
    /\ UNCHANGED <<auxVars, roleVars, data, chanVars, prodVars, cfront, chead,
                   c_back_ptr, c_front_ptr, histVars>>

\* mutant of c_start: two initial request tokens are sent
c_start_two_tokens ==
    /\ cpc = "start"
    /\ ppc # "panicked"
    /\ new_request' = new_request + 2
    /\ delay' = 0
    /\ cpc' = "recv"
    /\ UNCHANGED <<auxVars, roleVars, data, frame_ready, prodVars, cfront, chead,
                   c_back_ptr, c_front_ptr, histVars>>

\* new_request_tx.send(()).unwrap(); ... let mut delay = Duration::ZERO;
c_start ==
    /\ cpc = "start"
    /\ ppc # "panicked"
    /\ new_request' = new_request + 1
    /\ delay' = 0
    /\ cpc' = "recv"
    /\ UNCHANGED <<auxVars, roleVars, data, frame_ready, prodVars, cfront, chead,
                   c_back_ptr, c_front_ptr, histVars>>

\* mutant of c_recv: try_recv, the consumer goes on without a ready token
c_recv_try ==
    /\ cpc = "recv"
    /\ frame_ready' = IF frame_ready > 0 THEN frame_ready - 1 ELSE 0
    /\ cpc' = "front"
    /\ UNCHANGED <<auxVars, roleVars, data, new_request, prodVars, cfront, chead, delay,
                   c_back_ptr, c_front_ptr, histVars>>

\* let now = Instant::now(); frame_ready_rx.recv().unwrap();
c_recv ==
    /\ cpc = "recv"
    /\ frame_ready > 0
    /\ frame_ready' = frame_ready - 1
    /\ cpc' = "front"
    /\ UNCHANGED <<auxVars, roleVars, data, new_request, prodVars, cfront, chead, delay,
                   c_back_ptr, c_front_ptr, histVars>>

\* mutant of front_load: front() loads the temp pointer
front_load_temp ==
    /\ cpc = "front"
    /\ cfront' = temp
    /\ cpc' = "write"
    /\ UNCHANGED <<auxVars, roleVars, data, chanVars, prodVars, chead, delay,
                   c_back_ptr, c_front_ptr, histVars>>

\* let front = db_render.front();
front_load ==
    /\ cpc = "front"
    /\ cfront' = front
    /\ cpc' = "write"
    /\ UNCHANGED <<auxVars, roleVars, data, chanVars, prodVars, chead, delay,
                   c_back_ptr, c_front_ptr, histVars>>

\* stdout.write_all(&front.data): the read of the slot is not atomic; it is
\* modelled as two reads of the Vec, the bytes written being the first read's
\* prefix followed by what the second read finds behind it
c_write_head ==
    /\ cpc = "write"
    /\ \E k \in 0..Len(data[cfront]) : chead' = SubSeq(data[cfront], 1, k)
    /\ cpc' = "write_tail"
    /\ UNCHANGED <<auxVars, roleVars, data, chanVars, prodVars, cfront, delay,
                   c_back_ptr, c_front_ptr, histVars>>

c_write_tail ==
    /\ cpc = "write_tail"
    /\ shown' = Append(shown,
                       chead \o SubSeq(data[cfront], Len(chead) + 1, Len(data[cfront])))
    /\ chead' = <<>>
    /\ cfront' = None
    /\ cpc' = "pace"
    /\ UNCHANGED <<auxVars, roleVars, data, chanVars, prodVars, delay,
                   c_back_ptr, c_front_ptr, nPublished, nSwapped>>

\* mutant of c_pace: the sleeping branch does not reset delay
c_pace_no_reset ==
    /\ cpc = "pace"
    /\ \E e \in Elapsed :
         /\ delay + e <= MaxDelay
         /\ elapsed' = e
         /\ slept' = IF delay + e < frame_time THEN frame_time - (delay + e) ELSE 0
         /\ delay' = IF delay + e < frame_time
                     THEN delay + e
                     ELSE (delay + e) - frame_time
         /\ clock' = clock + e + slept'
         /\ maxElapsed' = IF e > maxElapsed THEN e ELSE maxElapsed
         /\ sumOver' = sumOver + (IF e > frame_time THEN e - frame_time ELSE 0)
    /\ nPaced' = nPaced + 1
    /\ cpc' = "swap_load"
    /\ UNCHANGED <<mainVars, encVars, roleVars, data, chanVars, prodVars, cfront, chead,
                   c_back_ptr, c_front_ptr, histVars>>

\* mutant of c_pace: the sleeping branch sleeps a whole frame_time
c_pace_sleep_full ==
    /\ cpc = "pace"
    /\ \E e \in Elapsed :
         /\ delay + e <= MaxDelay
         /\ elapsed' = e
         /\ slept' = IF delay + e < frame_time THEN frame_time ELSE 0
         /\ delay' = IF delay + e < frame_time
                     THEN 0
                     ELSE (delay + e) - frame_time
         /\ clock' = clock + e + slept'
         /\ maxElapsed' = IF e > maxElapsed THEN e ELSE maxElapsed
         /\ sumOver' = sumOver + (IF e > frame_time THEN e - frame_time ELSE 0)
    /\ nPaced' = nPaced + 1
    /\ cpc' = "swap_load"
    /\ UNCHANGED <<mainVars, encVars, roleVars, data, chanVars, prodVars, cfront, chead,
                   c_back_ptr, c_front_ptr, histVars>>

\* execute!(MoveTo(0,0)); let elapsed = now.elapsed(); delay += elapsed;
\* if delay < frame_time { sleep(frame_time - delay); delay = ZERO }
\* else { delay -= frame_time }
c_pace ==
    /\ cpc = "pace"
    /\ \E e \in Elapsed :
         /\ delay + e <= MaxDelay
         /\ elapsed' = e
         /\ slept' = IF delay + e < frame_time THEN frame_time - (delay + e) ELSE 0
         /\ delay' = IF delay + e < frame_time
                     THEN 0
                     ELSE (delay + e) - frame_time
         /\ clock' = clock + e + slept'
         /\ maxElapsed' = IF e > maxElapsed THEN e ELSE maxElapsed
         /\ sumOver' = sumOver + (IF e > frame_time THEN e - frame_time ELSE 0)
    /\ nPaced' = nPaced + 1
    /\ cpc' = "swap_load"
    /\ UNCHANGED <<mainVars, encVars, roleVars, data, chanVars, prodVars, cfront, chead,
                   c_back_ptr, c_front_ptr, histVars>>

\* swap: let back_ptr = self.back.load(SeqCst);
swap_load ==
    /\ cpc = "swap_load"
    /\ c_back_ptr' = back
    /\ cpc' = "swap_swap"
    /\ UNCHANGED <<auxVars, roleVars, data, chanVars, prodVars, cfront, chead, delay,
                   c_front_ptr, histVars>>

\* mutant of swap_swap: front is loaded, not exchanged
swap_swap_load ==
    /\ cpc = "swap_swap"
    /\ c_front_ptr' = front
    /\ front' = front
    /\ cpc' = "swap_store"
    /\ UNCHANGED <<auxVars, back, temp, data, chanVars, prodVars, cfront, chead, delay,
                   c_back_ptr, histVars>>

\* swap: let front_ptr = self.front.swap(back_ptr, SeqCst);
swap_swap ==
    /\ cpc = "swap_swap"
    /\ c_front_ptr' = front
    /\ front' = c_back_ptr
    /\ cpc' = "swap_store"
    /\ UNCHANGED <<auxVars, back, temp, data, chanVars, prodVars, cfront, chead, delay,
                   c_back_ptr, histVars>>

\* swap: self.back.store(front_ptr, SeqCst);
swap_store ==
    /\ cpc = "swap_store"
    /\ back' = c_front_ptr
    /\ nSwapped' = nSwapped + 1
    /\ cpc' = "send"
    /\ UNCHANGED <<auxVars, front, temp, data, chanVars, prodVars, cfront, chead, delay,
                   c_back_ptr, c_front_ptr, shown, nPublished>>

\* mutant of c_send: no request token is sent at the end of the iteration
c_send_none ==
    /\ cpc = "send"
    /\ ppc # "panicked"
    /\ new_request' = new_request
    /\ cpc' = "recv"
    /\ UNCHANGED <<auxVars, roleVars, data, frame_ready, prodVars, cfront, chead, delay,
                   c_back_ptr, c_front_ptr, histVars>>

\* mutant of c_send: the request token is sent twice
c_send_twice ==
    /\ cpc = "send"
    /\ ppc # "panicked"
    /\ new_request' = new_request + 2
    /\ cpc' = "recv"
    /\ UNCHANGED <<auxVars, roleVars, data, frame_ready, prodVars, cfront, chead, delay,
                   c_back_ptr, c_front_ptr, histVars>>

\* new_request_tx.send(()).unwrap(); and back to the top of the loop
c_send ==
    /\ cpc = "send"
    /\ ppc # "panicked"
    /\ new_request' = new_request + 1
    /\ cpc' = "recv"
    /\ UNCHANGED <<auxVars, roleVars, data, frame_ready, prodVars, cfront, chead, delay,
                   c_back_ptr, c_front_ptr, histVars>>

Consumer ==
    \/ c_start
    \/ c_recv
    \/ front_load
    \/ c_write_head
    \/ c_write_tail
    \/ c_pace
    \/ swap_load
    \/ swap_swap
    \/ swap_store
    \/ c_send

Next == Producer \/ Consumer

Spec == Init /\ [][Next]_vars

\* both threads are scheduled by the operating system: a thread that can take
\* its next step eventually takes it
FairSpec == Spec /\ WF_vars(Producer) /\ WF_vars(Consumer)

\* ---- the cell encoder (producer, main.rs:133-160) ----
\* the pixels an image is made of, as [r, g, b, a] of get_pixel(x, y).0
Palette ==
    << <<0, 0, 0, 0>>, <<255, 255, 255, 255>>, <<1, 20, 255, 0>>,
       <<9, 10, 99, 1>>, <<100, 0, 7, 128>>, <<12, 200, 34, 255>> >>

\* img.get_pixel(x, y).0 of the decoded image im
get_pixel(im, x, y) == Palette[((im + x + 3 * y) % Len(Palette)) + 1]

Digits == <<"0", "1", "2", "3", "4", "5", "6", "7", "8", "9">>

\* the `{}` formatting of an unsigned integer: its decimal digits
RECURSIVE Dec(_)
Dec(n) == IF n < 10 THEN <<Digits[n + 1]>> ELSE Dec(n \div 10) \o <<Digits[(n % 10) + 1]>>

\* the filled glyph "██": two full blocks
Filled == <<"U+2588", "U+2588">>

\* mutant of Cell: the colour channels are written in the order b, g, r
Cell_bgr(x, y, px) ==
    <<"ESC", "[">> \o Dec(y) \o <<";">> \o Dec(x * 2) \o <<"H">>
    \o <<"ESC", "[", "3", "8", ";", "2", ";">>
    \o Dec(px[3]) \o <<";">> \o Dec(px[2]) \o <<";">> \o Dec(px[1]) \o <<"m">>
    \o Filled

\* let [r, g, b, _] = px;
\* write!(&mut buf, "\x1b[{};{}H\x1b[38;2;{};{};{}m{}", y, x * 2, r, g, b, "██")
Cell(x, y, px) ==
    <<"ESC", "[">> \o Dec(y) \o <<";">> \o Dec(x * 2) \o <<"H">>
    \o <<"ESC", "[", "3", "8", ";", "2", ";">>
    \o Dec(px[1]) \o <<";">> \o Dec(px[2]) \o <<";">> \o Dec(px[3]) \o <<"m">>
    \o Filled

\* concatenation of a sequence of byte sequences
RECURSIVE Flatten(_)
Flatten(ss) == IF ss = <<>> THEN <<>> ELSE Head(ss) \o Flatten(Tail(ss))

\* for x in 0..cols { ... }: the cells of row y
EncodeRow(im, cols, y) ==
    Flatten([i \in 1..cols |-> Cell(i - 1, y, get_pixel(im, i - 1, y))])

\* mutant of BandRows: the band's range is start..=end
BandRows_inclusive(block_id, rows) ==
    LET chunk_rows == rows \div NumBands
        start == block_id * chunk_rows
        end == start + chunk_rows
    IN  [i \in 1..((end - start) + 1) |-> start + (i - 1)]

\* let chunk_rows = rows / 24; let start = block_id * chunk_rows;
\* let end = start + chunk_rows; for y in start..end
BandRows(block_id, rows) ==
    LET chunk_rows == rows \div NumBands
        start == block_id * chunk_rows
        end == start + chunk_rows
    IN  [i \in 1..(end - start) |-> start + (i - 1)]

\* the closure of one band: a fresh buf, filled row by row
EncodeBand(im, cols, rows, block_id) ==
    LET ys == BandRows(block_id, rows)
    IN  Flatten([i \in 1..Len(ys) |-> EncodeRow(im, cols, ys[i])])

\* the bands a worker runs, as rayon splits the range 0..24 among the workers:
\* one contiguous piece each, from ChunkLo up to ChunkHi - 1
ChunkLo(w, k) == ((w - 1) * NumBands) \div k
ChunkHi(w, k) == (w * NumBands) \div k

\* mutant of par_map: a worker keeps one buf for all its bands and returns it
\* without clearing it between two bands
par_map_shared_buf ==
    /\ ppc = "encode"
    /\ workers > 0
    /\ \E w \in 1..workers :
         LET b == next_band[w] IN
         /\ b < ChunkHi(w, workers)
         /\ bufs' = [bufs EXCEPT ![b + 1] =
                        (IF b > ChunkLo(w, workers) THEN bufs[b] ELSE <<>>)
                        \o EncodeBand(img, width, height, b)]
         /\ next_band' = [next_band EXCEPT ![w] = b + 1]
    /\ UNCHANGED <<paceVars, mainVars, width, height, workers, roleVars, data,
                   chanVars, prodVars, consVars, histVars>>

\* (0..24).into_par_iter().map(|block_id| { ... buf }): some worker runs the
\* closure on the next band of its piece; the bands of different workers
\* complete in any order
par_map ==
    /\ ppc = "encode"
    /\ workers > 0
    /\ \E w \in 1..workers :
         LET b == next_band[w] IN
         /\ b < ChunkHi(w, workers)
         /\ bufs' = [bufs EXCEPT ![b + 1] = EncodeBand(img, width, height, b)]
         /\ next_band' = [next_band EXCEPT ![w] = b + 1]
    /\ UNCHANGED <<paceVars, mainVars, width, height, workers, roleVars, data,
                   chanVars, prodVars, consVars, histVars>>

\* .collect::<Vec<Vec<u8>>>(): once every band is done, the bufs in the order of
\* their block_id
par_collect ==
    /\ ppc = "encode"
    /\ workers > 0
    /\ \A w \in 1..workers : next_band[w] = ChunkHi(w, workers)
    /\ blocks' = [i \in 1..NumBands |-> bufs[i]]
    /\ ppc' = "clear"
    /\ UNCHANGED <<auxVars, roleVars, data, chanVars, pathIdx, img, frameNo, pback,
                   bi, p_back_ptr, p_temp_ptr, consVars, histVars>>

\* the producer about to encode the image img into the temp slot, which holds
\* the blob of an earlier frame, for a grid, an image and a number of workers
\* out of the bounds
EncInit ==
    /\ InitRest
    /\ ppc = "temp_mut" /\ frameNo = 1
    /\ img \in 0..MaxSeed
    /\ width \in 1..MaxCols
    /\ height = GridRows
    /\ workers \in 1..MaxWorkers
    /\ next_band = [w \in 1..workers |-> ChunkLo(w, workers)]
    /\ bufs = [b \in 1..NumBands |-> <<>>]
    /\ data = [s \in Slots |->
                 IF s = 2
                 THEN [b \in 1..NumBands |-> EncodeBand(img + 1, width, height, b - 1)]
                 ELSE <<>>]

EncNext ==
    \/ temp_mut
    \/ par_map
    \/ par_collect
    \/ p_clear
    \/ p_extend

\* one run of the encoder, from temp_mut() to the end of the extend loop
EncSpec == EncInit /\ [][EncNext]_vars

\* ---- failures: panics of the two threads, and the main thread ----
\* image::open(&path).unwrap() panics on a missing or malformed image; the
\* unwinding producer drops new_request_rx and frame_ready_tx
p_open_fail ==
    /\ ppc = "open"
    /\ ppc' = "panicked"
    /\ UNCHANGED <<auxVars, roleVars, data, chanVars, pathIdx, img, frameNo, pback,
                   blocks, bi, p_back_ptr, p_temp_ptr, consVars, histVars>>

\* mutant of p_recv_disconnected: a clone of new_request_tx stays alive, recv
\* never returns Err and the producer stays blocked
p_recv_blocked ==
    /\ ppc = "recv"
    /\ new_request = 0
    /\ cpc = "panicked"
    /\ FALSE
    /\ UNCHANGED vars

\* new_request_rx.recv().unwrap(): the channel is empty and its sender was
\* dropped by the panicked consumer, recv returns Err and unwrap panics
p_recv_disconnected ==
    /\ ppc = "recv"
    /\ new_request = 0
    /\ cpc = "panicked"
    /\ ppc' = "panicked"
    /\ UNCHANGED <<auxVars, roleVars, data, chanVars, pathIdx, img, frameNo, pback,
                   blocks, bi, p_back_ptr, p_temp_ptr, consVars, histVars>>

\* frame_ready_tx.send(()).unwrap(): the receiver was dropped by the panicked
\* consumer, send returns Err and unwrap panics
p_send_disconnected ==
    /\ ppc = "send"
    /\ cpc = "panicked"
    /\ ppc' = "panicked"
    /\ UNCHANGED <<auxVars, roleVars, data, chanVars, pathIdx, img, frameNo, pback,
                   blocks, bi, p_back_ptr, p_temp_ptr, consVars, histVars>>

\* stdout.write_all(&front.data).unwrap() or execute!(stdout, MoveTo(0, 0)).unwrap()
\* panics on a terminal write error; the unwinding consumer drops
\* new_request_tx and frame_ready_rx
c_write_fail ==
    /\ cpc \in {"write", "write_tail", "pace"}
    /\ cpc' = "panicked"
    /\ UNCHANGED <<auxVars, roleVars, data, chanVars, prodVars, cfront, chead, delay,
                   c_back_ptr, c_front_ptr, histVars>>

\* frame_ready_rx.recv().unwrap(): the channel is empty and its sender was
\* dropped by the panicked producer
c_recv_disconnected ==
    /\ cpc = "recv"
    /\ frame_ready = 0
    /\ ppc = "panicked"
    /\ cpc' = "panicked"
    /\ UNCHANGED <<auxVars, roleVars, data, chanVars, prodVars, cfront, chead, delay,
                   c_back_ptr, c_front_ptr, histVars>>

\* new_request_tx.send(()).unwrap() at line 174 or 201: the receiver was dropped
\* by the panicked producer
c_send_disconnected ==
    /\ cpc \in {"start", "send"}
    /\ ppc = "panicked"
    /\ cpc' = "panicked"
    /\ UNCHANGED <<auxVars, roleVars, data, chanVars, prodVars, cfront, chead, delay,
                   c_back_ptr, c_front_ptr, histVars>>

\* cpu_handle.join().unwrap(): join returns once the producer thread has ended,
\* which it only does by a panic (its `loop` has no exit); join then returns Err,
\* unwrap panics in main and the process exits.  Lines 206-211, among them
\* disable_raw_mode(), follow an Ok that join never returns.
m_join_cpu ==
    /\ mpc = "join_cpu"
    /\ ppc = "panicked"
    /\ mpc' = "panicked"
    /\ UNCHANGED <<paceVars, encVars, raw_mode, roleVars, data, chanVars, prodVars, consVars,
                   histVars>>

\* the process has exited: main has left `main` by its panic
ProcessExited == mpc = "panicked"

ProducerF ==
    /\ ~ProcessExited
    /\ \/ Producer
       \/ p_open_fail
       \/ p_recv_disconnected
       \/ p_send_disconnected

ConsumerF ==
    /\ ~ProcessExited
    /\ \/ Consumer
       \/ c_write_fail
       \/ c_recv_disconnected
       \/ c_send_disconnected

NextF == ProducerF \/ ConsumerF \/ m_join_cpu

\* the program with failing decodes and terminal writes, all three threads
\* scheduled fairly
FailSpec ==
    /\ Init /\ [][NextF]_vars
    /\ WF_vars(ProducerF) /\ WF_vars(ConsumerF) /\ WF_vars(m_join_cpu)

\* ---- vocabulary of the properties ----
\* the three roles reference three pairwise distinct slots, all of them allocated
\* by DoubleBuffer::new
RolesArePermutation ==
    /\ {front, back, temp} = Slots
    /\ front # back /\ front # temp /\ back # temp

\* the consumer holds the reference obtained from front() and reads the slot
ConsumerReading == cpc \in {"write", "write_tail"}
\* the producer runs back.data.clear() / back.data.extend(row) on its reference
ProducerWriting == ppc \in {"clear", "extend"}
\* the producer is between recv and the end of temp_to_back
InTempToBack == ppc \in {"ttb_load", "ttb_swap", "ttb_store"}
\* the consumer is between the pacer and the end of swap
InSwap == cpc \in {"swap_load", "swap_swap", "swap_store"}

\* blob b is the complete encoding of one image: all bands of one frame, in order
IsCompleteFrame(b) ==
    \E f \in 1..MaxFrames : \E p \in 0..(NumPaths - 1) : b = EncodeBlocks(f, p)

\* frame n was written to the terminal; at the i-th write
ShownAt(n, i) == i \in 1..Len(shown) /\ shown[i] # <<>> /\ shown[i][1].frame = n
Displayed(n) == \E i \in 1..Len(shown) : ShownAt(n, i)
\* frame n was written and the swap that follows that write has completed
DisplayedAndSwapped(n) == \E i \in 1..Len(shown) : ShownAt(n, i) /\ nSwapped >= i

\* the producer has started to encode frame n
EncodingStarted(n) == frameNo > n \/ (frameNo = n /\ ppc \notin {"temp_mut", "encode"})
\* the producer has received the request that lets it publish frame n
PublishStarted(n) == nPublished >= n \/ (frameNo = n /\ InTempToBack)

\* C1: whenever the consumer is reading the slot it got from front() and the
\* producer is writing the slot it got from temp_mut(), the two slots differ
C1_NoOverwriteOfDisplayedSlot ==
    (ConsumerReading /\ ProducerWriting) => cfront # pback

C1_Witness ==
    /\ cpc = "write_tail" /\ ppc = "extend" /\ bi > 0
    /\ data[cfront] # <<>> /\ cfront # pback

\* C2: after every completed swap() and every completed temp_to_back() the roles
\* are three pairwise distinct slots among the three allocated ones
C2_RolesPermutationAfterOps ==
    [][((ppc = "ttb_store" /\ ppc' = "send") \/ (cpc = "swap_store" /\ cpc' = "send"))
         => RolesArePermutation']_vars

C2_Witness ==
    /\ cpc = "send" /\ nSwapped >= 2 /\ nPublished >= 2
    /\ RolesArePermutation /\ front # 0

\* C3: at the granularity of the atomic loads, swaps and stores no state is
\* reachable in which two roles reference the same slot
C3_NoTransientAlias == front # back /\ front # temp /\ back # temp

\* C4: the consumer never reads data of frame N before the producer's
\* temp_to_back for frame N has completed
C4_PublishBeforeDisplay ==
    /\ \A i \in 1..Len(shown) : \A j \in 1..Len(shown[i]) :
          shown[i][j].frame <= nPublished
    /\ \A j \in 1..Len(chead) : chead[j].frame <= nPublished

C4_Witness ==
    /\ Len(shown) >= 3
    /\ shown[3] = EncodeBlocks(2, 1)
    /\ nPublished >= 2

\* C5 as stated: the display of frame N and the swap that follows it complete
\* before the producer starts encoding frame N+1
C5_DisplayBeforeNextEncode ==
    \A n \in 1..MaxFrames : EncodingStarted(n + 1) => DisplayedAndSwapped(n)

\* C5 as amended: the display of frame N and the swap that follows it complete
\* before the producer publishes frame N+2, and so before it starts encoding
\* frame N+3
C5_DisplayBeforeSecondNextPublish ==
    \A n \in 1..MaxFrames :
        /\ PublishStarted(n + 2) => DisplayedAndSwapped(n)
        /\ EncodingStarted(n + 3) => DisplayedAndSwapped(n)

C5_Witness ==
    /\ frameNo = 4 /\ ppc = "ttb_swap"
    /\ DisplayedAndSwapped(2) /\ ~Displayed(3)

\* the frames whose temp_to_back completed and that were not written yet
Unwritten == {n \in 1..nPublished : ~Displayed(n)}
\* the frames the consumer is writing to the terminal right now
BeingDisplayed ==
    IF ConsumerReading /\ data[cfront] # <<>> THEN {data[cfront][1].frame} ELSE {}
\* the frame storage is the three slots of DoubleBuffer::new
ThreeSlots == DOMAIN data = Slots /\ {front, back, temp} \subseteq Slots

\* C6 as stated: at most one frame is published but not yet written, next to at
\* most one frame being displayed, and the frame storage stays at three slots
C6_OnePublishedUndisplayed ==
    /\ Cardinality(Unwritten \ BeingDisplayed) <= 1
    /\ Cardinality(BeingDisplayed) <= 1
    /\ ThreeSlots

\* C6 as amended: at most two frames are published but not yet written (the one
\* bound to front, which may be the one being displayed, and the one bound to
\* back), and the frame storage stays at three slots
C6_TwoPublishedUndisplayed ==
    /\ Cardinality(Unwritten) <= 2
    /\ Cardinality(BeingDisplayed) <= 1
    /\ BeingDisplayed \subseteq Unwritten
    /\ ThreeSlots

C6_Witness ==
    /\ Cardinality(Unwritten) = 2
    /\ Cardinality(BeingDisplayed) = 1
    /\ nPublished >= 3

\* C7: each of the two channels holds at most one unconsumed token
C7_AtMostOneToken == new_request <= 1 /\ frame_ready <= 1

C7_Witness == frame_ready = 1 /\ nPublished >= 2 /\ nSwapped >= 1

\* an encoded frame has been written to the terminal
FrameShown == \E i \in 1..Len(shown) : IsCompleteFrame(shown[i])

\* C8: under fair scheduling an encoded frame is eventually written to the
\* terminal, and no state without a next step is reachable before that
C8_StartupLiveness ==
    /\ [](~FrameShown => ENABLED Next)
    /\ <>FrameShown

C8_Witness == FrameShown /\ Len(shown) = 2 /\ nPublished = 2

\* C9 as stated: every blob written to the terminal is the complete result of
\* one finished encode
C9_EveryBlobComplete ==
    \A i \in 1..Len(shown) : IsCompleteFrame(shown[i])

\* C9 as amended: the first blob written is the empty data of the initial front
\* slot; every later blob is the complete result of one finished encode, never
\* a cleared or partially extended slot
C9_BlobCompleteAfterFirst ==
    \A i \in 1..Len(shown) :
        IF i = 1 THEN shown[i] = <<>> ELSE IsCompleteFrame(shown[i])

C9_Witness ==
    /\ Len(shown) >= 3
    /\ IsCompleteFrame(shown[2]) /\ IsCompleteFrame(shown[3])
    /\ ppc = "extend" /\ bi > 0 /\ bi < NumBands

\* C10: temp_to_back and swap alternate strictly, temp_to_back first, and their
\* load/swap/store windows never overlap
C10_StrictAlternation ==
    /\ ~(InTempToBack /\ InSwap)
    /\ nSwapped <= nPublished /\ nPublished <= nSwapped + 1
    /\ InTempToBack => nPublished = nSwapped
    /\ InSwap => nPublished = nSwapped + 1

C10_Witness == InSwap /\ nSwapped >= 2 /\ ppc = "extend"

\* ---- the pacer ----
\* cumulative measured and slept time minus the target nPaced * frame_time
Drift == clock - nPaced * frame_time

\* C11 as stated: after F pacer runs the cumulative time is within one frame's
\* processing time (the largest measured) of F * frame_time
C11_DriftWithinOneFrame ==
    /\ Drift <= maxElapsed
    /\ 0 - Drift <= maxElapsed

\* C11 as amended: the cumulative time is never below F * frame_time and exceeds
\* it by at most the sum of the overruns max(0, elapsed - frame_time)
C11_DriftWithinOverruns ==
    /\ Drift >= 0
    /\ Drift <= sumOver

C11_Witness ==
    /\ nPaced >= 4
    /\ Drift > maxElapsed
    /\ Drift = sumOver

\* C18: after every pacer run the time counted is nPaced * frame_time + delay
\* with delay >= 0; a run that sleeps sleeps frame_time minus the accumulated
\* delay and leaves delay = 0, a run that does not sleep takes frame_time off
\* the delay, and neither difference is negative
C18_PacerAccounting ==
    [][nPaced' = nPaced + 1 =>
         LET acc == delay + elapsed' IN
         /\ clock' = nPaced' * frame_time + delay'
         /\ clock' = clock + elapsed' + slept'
         /\ delay' >= 0
         /\ IF acc < frame_time
            THEN slept' = frame_time - acc /\ slept' > 0 /\ delay' = 0
            ELSE slept' = 0 /\ delay' = acc - frame_time]_vars

C18_Witness ==
    /\ nPaced >= 3
    /\ slept > 0 /\ delay = 0
    /\ sumOver > 0
    /\ clock = nPaced * frame_time

\* C16: the k-th frame published is the encoding of the input at position
\* (k-1) mod NumPaths of the path list
C16_FramesFollowPathList ==
    /\ ppc = "send" =>
          data[back] = EncodeBlocks(nPublished, (nPublished - 1) % NumPaths)
    /\ \A sl \in Slots : \A j \in 1..Len(data[sl]) :
          data[sl][j].path = (data[sl][j].frame - 1) % NumPaths

C16_Witness ==
    /\ ppc = "send"
    /\ nPublished = NumPaths + 1
    /\ data[back] = EncodeBlocks(NumPaths + 1, 0)

\* C17: the first terminal write outputs the empty initial front buffer and the
\* k-th write, k >= 2, outputs exactly the frame published (k-1)-th
C17_DisplayLagsPublishByOne ==
    \A k \in 1..Len(shown) :
        shown[k] = IF k = 1 THEN <<>> ELSE EncodeBlocks(k - 1, (k - 2) % NumPaths)

C17_Witness ==
    /\ Len(shown) >= 4
    /\ shown[4] = EncodeBlocks(3, 2 % NumPaths)
    /\ nPublished >= 4

\* C20: some thread can always take a step (until the model's frame cap stops
\* the producer), and under fair scheduling every published frame is eventually
\* written to the terminal and every recv of the producer is eventually granted
C20_NoDeadlockAndProgress ==
    /\ [](ENABLED Next \/ (ppc = "open" /\ frameNo = MaxFrames))
    /\ \A n \in 1..(MaxFrames - 1) : (nPublished >= n) ~> Displayed(n)
    /\ (ppc = "recv") ~> (ppc = "ttb_load")

C20_Witness ==
    /\ Displayed(MaxFrames - 1)
    /\ ppc = "open" /\ frameNo = MaxFrames
    /\ cpc = "recv" /\ frame_ready = 0

\* ---- failures ----
\* the model's frame cap, not the program, keeps the producer from going on
Capped == ppc = "open" /\ frameNo = MaxFrames

\* C14 as stated: once a thread has panicked, the next recv or send of the
\* surviving thread observes the disconnect (no channel operation of the
\* survivor succeeds any more) and the survivor terminates
C14_NextOpObservesDisconnect ==
    /\ [][ppc = "panicked" => ~(cpc = "recv" /\ cpc' = "front")]_vars
    /\ [][cpc = "panicked" => ~(ppc = "recv" /\ ppc' = "ttb_load")]_vars

\* C14 as amended: the surviving thread is never blocked and terminates (or the
\* process exits); the consumer's recv may still return the one token queued
\* before the producer panicked, and the send that follows observes the
\* disconnect; the producer's next recv observes it at once
C14_SurvivorTerminates ==
    /\ []((ppc = "panicked" /\ cpc # "panicked" /\ ~ProcessExited) => ENABLED ConsumerF)
    /\ []((cpc = "panicked" /\ ppc # "panicked" /\ ~Capped) => ENABLED ProducerF)
    /\ [][(ppc = "panicked" /\ cpc = "recv" /\ cpc' = "front") => frame_ready' = 0]_vars
    /\ [][cpc = "panicked" => ~(ppc = "recv" /\ ppc' = "ttb_load")]_vars
    /\ (ppc = "panicked") ~> (cpc = "panicked" \/ ProcessExited)
    /\ (cpc = "panicked" /\ ~Capped) ~> (ppc = "panicked")

C14_Witness ==
    /\ ppc = "panicked" /\ cpc = "panicked" /\ ~ProcessExited
    /\ nPublished >= 2 /\ nSwapped >= 2
    /\ Len(shown) = nSwapped

\* C15: whenever the process has exited, terminal raw mode has been disabled
C15_RawModeRestoredOnExit == ProcessExited => raw_mode = FALSE

\* ---- the encoder's output, read back ----
IsDigit(c) == \E d \in 1..10 : Digits[d] = c
DigitVal(c) == (CHOOSE d \in 1..10 : Digits[d] = c) - 1

\* the decimal numbers written in the bytes s, from position i on
RECURSIVE Numbers(_, _, _, _)
Numbers(s, i, cur, has) ==
    IF i > Len(s)
    THEN (IF has THEN <<cur>> ELSE <<>>)
    ELSE IF IsDigit(s[i])
         THEN Numbers(s, i + 1, cur * 10 + DigitVal(s[i]), TRUE)
         ELSE (IF has THEN <<cur>> ELSE <<>>) \o Numbers(s, i + 1, 0, FALSE)

\* the cells of a band's bytes: each ends with the two glyph characters that
\* follow the "m" of its colour sequence
CellEnds(s) == {i \in 3..Len(s) : s[i - 2] = "m"}
CellStart(s, e) ==
    LET before == {i \in CellEnds(s) : i < e}
    IN  IF before = {} THEN 1 ELSE (CHOOSE i \in before : \A j \in before : j <= i) + 1
SplitCells(s) ==
    LET ends == CellEnds(s)
        nth(k) == CHOOSE e \in ends : Cardinality({i \in ends : i <= e}) = k
    IN  [k \in 1..Cardinality(ends) |-> SubSeq(s, CellStart(s, nth(k)), nth(k))]

\* the cells of a blob (a sequence of band buffers), in the order of the bytes
BlobCells(blob) == Flatten([i \in 1..Len(blob) |-> SplitCells(blob[i])])

\* row, column, colour and glyph a terminal reads in a cell
CellRow(c) == Numbers(c, 1, 0, FALSE)[1]
CellCol(c) == Numbers(c, 1, 0, FALSE)[2]
CellRGB(c) == SubSeq(Numbers(c, 1, 0, FALSE), 5, 7)
CellGlyph(c) == SubSeq(c, Len(c) - 1, Len(c))
\* the blank glyph: two spaces
Blank == <<" ", " ">>

\* the encode has finished: the extend loop has run to its end
EncodeDone == ppc = "recv" /\ workers > 0
\* the band-by-band encoding of the image in band order by one thread
SeqBlocks == [i \in 1..NumBands |-> EncodeBand(img, width, height, i - 1)]
\* the grid position of the k-th cell in row-major order
RowOf(k) == (k - 1) \div width
ColOf(k) == (k - 1) % width

\* C12: whatever the number of workers and the order in which the bands
\* complete, the collected blocks and the blob written to the slot equal the
\* sequential band-by-band encoding, and every finished band's buf is its own
C12_BandDeterminism ==
    /\ (workers > 0 /\ ppc \in {"clear", "extend", "recv"}) => blocks = SeqBlocks
    /\ EncodeDone => data[pback] = SeqBlocks
    /\ (workers > 0 /\ ppc = "encode") =>
          \A w \in 1..workers : \A b \in ChunkLo(w, workers)..(next_band[w] - 1) :
              bufs[b + 1] = SeqBlocks[b + 1]

C12_Witness ==
    /\ EncodeDone /\ workers = 2 /\ width = 2
    /\ data[pback] = SeqBlocks
    /\ Len(BlobCells(data[pback])) > NumBands

\* C13 as stated: a cell carries the blank glyph when its pixel's alpha is 0 and
\* the filled glyph otherwise, and its colour sequence carries the pixel's r, g, b
C13_GlyphByAlpha ==
    EncodeDone =>
        LET cells == BlobCells(data[pback]) IN
        \A k \in 1..Len(cells) :
            LET px == get_pixel(img, ColOf(k), RowOf(k)) IN
            /\ CellGlyph(cells[k]) = IF px[4] = 0 THEN Blank ELSE Filled
            /\ CellRGB(cells[k]) = <<px[1], px[2], px[3]>>

\* C13 as amended: every cell carries the filled glyph whatever its pixel's
\* alpha, and its colour sequence carries the pixel's r, g, b
C13_GlyphAlwaysFilled ==
    EncodeDone =>
        LET cells == BlobCells(data[pback]) IN
        \A k \in 1..Len(cells) :
            LET px == get_pixel(img, ColOf(k), RowOf(k)) IN
            /\ CellGlyph(cells[k]) = Filled
            /\ CellRGB(cells[k]) = <<px[1], px[2], px[3]>>

C13_Witness ==
    /\ EncodeDone
    /\ get_pixel(img, 0, 0)[4] = 0
    /\ get_pixel(img, 0, 1)[4] > 0
    /\ Len(BlobCells(data[pback])) >= 2 * NumBands

\* the rows of two different bands are disjoint
BandsDisjoint ==
    \A b1, b2 \in 0..(NumBands - 1) :
        b1 # b2 =>
            \A i \in 1..Len(BandRows(b1, height)) : \A j \in 1..Len(BandRows(b2, height)) :
                BandRows(b1, height)[i] # BandRows(b2, height)[j]

\* C19: the 24 bands are pairwise disjoint and the blob holds exactly one cell
\* for every (x, y) with 0 <= x < width and 0 <= y < height, in row-major order:
\* width * height cells, no row left unencoded
C19_EveryRowEncoded ==
    EncodeDone =>
        LET cells == BlobCells(data[pback]) IN
        /\ BandsDisjoint
        /\ Len(cells) = width * height
        /\ \A k \in 1..Len(cells) :
              CellRow(cells[k]) = RowOf(k) /\ CellCol(cells[k]) = 2 * ColOf(k)

C19_Witness ==
    /\ EncodeDone
    /\ width = 2 /\ height = GridRows /\ height \div NumBands >= 2
    /\ LET cells == BlobCells(data[pback]) IN
       /\ Len(cells) = 2 * GridRows
       /\ CellRow(cells[Len(cells)]) = GridRows - 1
       /\ CellCol(cells[Len(cells)]) = 2

====
